---- MODULE Spec2Model ----
(***************************************************************************)
(* Plot record service (src/api/main.py): a FastAPI application with five  *)
(* handlers over one SQLAlchemy-mapped table "plots" in PostgreSQL (the    *)
(* default DATABASE_URL, READ COMMITTED isolation).                        *)
(*                                                                         *)
(* FastAPI runs these synchronous handlers in a thread pool, so requests   *)
(* overlap.  Two specifications are given:                                 *)
(*   Spec      requests in parallel; each action is one database round     *)
(*             trip of one request: open session, SELECT, INSERT (which    *)
(*             draws the id), COMMIT, UPDATE/DELETE with its COMMIT (the   *)
(*             row lock is held in between), refresh SELECT, close.        *)
(*   SpecList  list_plots, a single SELECT, applied to a table and query   *)
(*             parameters drawn from bounded sets.                         *)
(*                                                                         *)
(* Strings are tuples of one-character strings, so that ILIKE can be       *)
(* evaluated character by character.                                       *)
(***************************************************************************)
EXTENDS Integers, Sequences, FiniteSets, TLC

VARIABLES
    rows,      \* committed content of table "plots": id -> [title, work, status, summary]
    seq,       \* last value handed out by the serial sequence behind plots.id
    assigned,  \* history: the ids create_plot received from the store, in order
    req,       \* SpecList: the list_plots request
    resp,      \* SpecList: the response to that request
    sess,      \* Spec: per request slot, the request and its session's progress
    open,      \* Spec: slots whose session (database handle) is open
    writer     \* Spec: id -> slot of the update_plot that committed last (history)

vars == <<rows, seq, assigned, req, resp, sess, open, writer>>

----------------------------------------------------------------------------
(* Bounds *)

\* create_plot is enabled while fewer than MaxId ids have been handed out.
MaxId == 3

\* Number of request slots of Spec (requests that may overlap).
MaxReq == 2

\* SpecList draws tables whose ids lie in 1..MaxRows.
MaxRows == 3

----------------------------------------------------------------------------
(* Values *)

\* Python's None / SQL NULL / JSON null.  Its one element is not a
\* character, so it differs from every string, the empty string included.
None == <<"None">>

\* A key that is absent from a JSON body.
Missing == <<"Missing">>

Fields == {"title", "work", "status", "summary"}

Titles == { <<"D", "r">>, <<"x">> }
Works == { <<"A">>, <<"B">> }
Statuses == { <<"o", "p">>, <<"c", "l">> }
Summaries == { <<"r", "_">> }

\* JSON bodies that pass PlotCreate validation, plus one that does not.
ValidBodies ==
    [title : Titles, work : {<<"A">>}, status : {<<"o", "p">>}, summary : {None}]
    \cup [title : {<<"D", "r">>}, work : Works, status : Statuses, summary : Summaries]
    \cup [title : {<<"x">>}, work : {<<"B">>}, status : {<<"c", "l">>}, summary : {Missing}]

InvalidBodies ==
    { [title |-> Missing, work |-> <<"A">>, status |-> <<"o", "p">>, summary |-> None] }

Bodies == ValidBodies \cup InvalidBodies

\* Path parameter plot_id.
PlotIds == {1, 2}

\* Query parameters of GET /plots.
WorkParams == { None, <<>>, <<"A">> }
StatusParams == { None, <<>>, <<"o", "p">> }
QParams == { None, <<>>, <<"d", "R">>, <<"_">>, <<"%">>, <<"\\">> }

----------------------------------------------------------------------------
(* Responses *)

\* return plot  (response_model=PlotRead)
OkPlot(plot) == [status |-> 200, kind |-> "plot", plot |-> plot]

\* return plots  (response_model=List[PlotRead])
OkList(plots) == [status |-> 200, kind |-> "list", plots |-> plots]

\* return {"message": "deleted", "id": plot_id}
OkDeleted(plot_id) == [status |-> 200, kind |-> "deleted", message |-> "deleted", id |-> plot_id]

\* raise HTTPException(status_code=404, detail="Plot not found")
NotFound == [status |-> 404, kind |-> "error", detail |-> "Plot not found"]

\* Request body rejected by the PlotCreate schema before the handler runs.
Unprocessable == [status |-> 422, kind |-> "error", detail |-> "validation"]

\* An exception other than HTTPException escaping the handler.
ServerError(exc) == [status |-> 500, kind |-> "error", detail |-> exc]

NoResp == [status |-> 0, kind |-> "none"]

----------------------------------------------------------------------------
(* Schemas *)

\* PlotCreate(**body): title, work and status are required strings; summary
\* is Optional[str] with default None.
ValidationError == [error |-> "validation"]

PlotCreate(body) ==
    IF \E f \in {"title", "work", "status"} : body[f] \in {None, Missing}
    THEN ValidationError
    ELSE [title |-> body.title, work |-> body.work, status |-> body.status,
          summary |-> IF body.summary = Missing THEN None ELSE body.summary]

\* PlotRead.from_orm(plot)
PlotRead(plot) ==
    [id |-> plot.id, title |-> plot.title, work |-> plot.work,
     status |-> plot.status, summary |-> plot.summary]

----------------------------------------------------------------------------
(* The store: the statements the session sends, evaluated on the table *)

\* The mapped object for one table row.
PlotModel(id, row) ==
    [id |-> id, title |-> row.title, work |-> row.work,
     status |-> row.status, summary |-> row.summary]

\* The None that Query.first() returns when no row matches.
NoPlot == [none |-> TRUE]

\* A lookup without its filter: the first row of the table, whatever the id.
query_first_unfiltered(table, plot_id) ==
    IF DOMAIN table = {} THEN NoPlot
    ELSE LET m == CHOOSE i \in DOMAIN table : \A j \in DOMAIN table : i <= j
         IN  PlotModel(m, table[m])

\* db.query(PlotModel).filter(PlotModel.id == plot_id).first()
query_first(table, plot_id) ==
    IF plot_id \in DOMAIN table THEN PlotModel(plot_id, table[plot_id]) ELSE NoPlot

\* An id generator that takes one more than the largest stored id.
next_id_max(table, last) ==
    IF DOMAIN table = {} THEN 1
    ELSE 1 + CHOOSE i \in DOMAIN table : \A j \in DOMAIN table : j <= i

\* nextval of the serial sequence behind the Integer primary key.
next_id(table, last) == last + 1

\* A COMMIT that does not persist the inserted row.
commit_insert_rolled_back(table, id, data) == table

\* db.commit() after db.add(plot), second round trip: COMMIT makes the row
\* inserted under the drawn id visible.
commit_insert(table, id, data) == (id :> data) @@ table

\* The columns an UPDATE sets: the unit of work compares each assigned
\* attribute with the value loaded by the SELECT and emits only the changes.
changed_columns(plot, data) == { f \in Fields : data[f] # plot[f] }

\* plot.title = ...; plot.work = ...; plot.status = ...; plot.summary = ...;
\* db.commit(): UPDATE plots SET <changed columns> WHERE id = plot.id, COMMIT.
\* No changed column: no statement.  A statement matching no row raises
\* StaleDataError and nothing is committed.
flush_update(table, plot, data) ==
    LET cols == changed_columns(plot, data)
    IN  IF cols = {}
        THEN [ok |-> TRUE, matched |-> 0, rows |-> table]
        ELSE IF plot.id \notin DOMAIN table
        THEN [ok |-> FALSE, matched |-> 0, rows |-> table]
        ELSE [ok |-> TRUE, matched |-> 1,
              rows |-> [table EXCEPT ![plot.id] =
                          [f \in Fields |-> IF f \in cols THEN data[f] ELSE @[f]]]]

\* A DELETE without its WHERE clause.
flush_delete_all(table, plot) ==
    [ok |-> TRUE, matched |-> Cardinality(DOMAIN table), rows |-> <<>>]

\* db.delete(plot); db.commit(): DELETE FROM plots WHERE id = plot.id, COMMIT.
\* A DELETE matching no row only emits a warning.
flush_delete(table, plot) ==
    [ok |-> TRUE,
     matched |-> IF plot.id \in DOMAIN table THEN 1 ELSE 0,
     rows |-> [i \in DOMAIN table \ {plot.id} |-> table[i]]]

\* db.refresh(plot): SELECT by primary key; NoPlot stands for
\* InvalidRequestError (the row is gone).
refresh(table, plot) == query_first(table, plot.id)

----------------------------------------------------------------------------
(* ILIKE *)

\* Case folding of the characters used.
Lower(c) ==
    CASE c = "A" -> "a"
      [] c = "B" -> "b"
      [] c = "D" -> "d"
      [] c = "R" -> "r"
      [] OTHER -> c

\* PostgreSQL LIKE matching of string s against pattern p, case folded:
\* % matches any sequence, _ any one character, \ quotes the next character.
RECURSIVE LikeMatch(_, _)
LikeMatch(s, p) ==
    IF p = <<>> THEN s = <<>>
    ELSE IF Head(p) = "%"
    THEN LikeMatch(s, Tail(p)) \/ (s # <<>> /\ LikeMatch(Tail(s), p))
    ELSE IF Head(p) = "_"
    THEN s # <<>> /\ LikeMatch(Tail(s), Tail(p))
    ELSE IF Head(p) = "\\"
    THEN /\ Len(p) >= 2
         /\ s # <<>>
         /\ Lower(Head(s)) = Lower(p[2])
         /\ LikeMatch(Tail(s), Tail(Tail(p)))
    ELSE /\ s # <<>>
         /\ Lower(Head(s)) = Lower(Head(p))
         /\ LikeMatch(Tail(s), Tail(p))

\* column.ilike(pattern) in SQL's three-valued logic.
ilike(value, pattern) ==
    IF value = None THEN "NULL"
    ELSE IF LikeMatch(value, pattern) THEN "TRUE" ELSE "FALSE"

\* a | b  (SQL OR)
sql_or(a, b) ==
    IF a = "TRUE" \/ b = "TRUE" THEN "TRUE"
    ELSE IF a = "NULL" \/ b = "NULL" THEN "NULL"
    ELSE "FALSE"

----------------------------------------------------------------------------
(* list_plots *)

\* Python truthiness of an Optional[str]: None and "" are falsy.
Truthy(v) == v # None /\ v # <<>>

\* like = f"%{q}%"; PlotModel.title.ilike(like) | PlotModel.summary.ilike(like)
q_matches(row, q) ==
    LET like == <<"%">> \o q \o <<"%">>
    IN  sql_or(ilike(row.title, like), ilike(row.summary, like)) = "TRUE"

\* A list_plots that ignores the status parameter.
list_filter_no_status(row, work, status, q) ==
    /\ Truthy(work) => row.work = work
    /\ Truthy(q) => q_matches(row, q)

\* The WHERE clause list_plots builds, evaluated on one row.
list_filter(row, work, status, q) ==
    /\ Truthy(work) => row.work = work
    /\ Truthy(status) => row.status = status
    /\ Truthy(q) => q_matches(row, q)

\* ORDER BY plots.id ASC over the ids in S.
RECURSIVE order_by_id(_)
order_by_id(S) ==
    IF S = {} THEN <<>>
    ELSE LET m == CHOOSE i \in S : \A j \in S : i <= j
         IN  <<m>> \o order_by_id(S \ {m})

\* query.order_by(PlotModel.id.asc()).all()
list_query(table, work, status, q) ==
    LET ids == order_by_id({ i \in DOMAIN table : list_filter(table[i], work, status, q) })
    IN  [k \in 1..Len(ids) |-> PlotModel(ids[k], table[ids[k]])]

----------------------------------------------------------------------------
(* The handlers that are one SELECT, and the return statement *)

\* Evaluation of "return <name>" in a function whose local and global names
\* are scope: an unbound name raises NameError.
return_name(name, scope) ==
    IF name \in DOMAIN scope THEN OkPlot(PlotRead(scope[name])) ELSE ServerError("NameError")

\* GET /plots
list_plots(table, work, status, q) == OkList(list_query(table, work, status, q))

\* GET /plots/{plot_id}
get_plot(table, plot_id) ==
    LET plot == query_first(table, plot_id)
    IN  IF plot = NoPlot THEN NotFound ELSE OkPlot(PlotRead(plot))

----------------------------------------------------------------------------
(* Spec: requests in parallel, one database round trip per step *)

Slots == 1..MaxReq

NoReq == [op |-> "none"]

\* The table the requests start from: one row, created earlier.
InitialData == [title |-> <<"D", "r">>, work |-> <<"A">>, status |-> <<"o", "p">>, summary |-> None]

RequestBodies ==
    { [title |-> <<"x">>, work |-> <<"A">>, status |-> <<"o", "p">>, summary |-> None],
      [title |-> <<"D", "r">>, work |-> <<"B">>, status |-> <<"o", "p">>, summary |-> Missing],
      [title |-> <<"D", "r">>, work |-> <<"A">>, status |-> <<"c", "l">>, summary |-> <<"r", "_">>],
      [title |-> Missing, work |-> <<"A">>, status |-> <<"o", "p">>, summary |-> None] }

Requests ==
    [op : {"list_plots"}, work : {<<"A">>}, status : {None}, q : {None}]
    \cup [op : {"get_plot", "delete_plot"}, plot_id : PlotIds]
    \cup [op : {"create_plot"}, body : RequestBodies]
    \cup [op : {"update_plot"}, plot_id : PlotIds, body : RequestBodies]

Idle == [pc |-> "idle"]

Init ==
    /\ rows = (1 :> InitialData)
    /\ seq = 1
    /\ assigned = <<1>>
    /\ req = NoReq
    /\ resp = NoResp
    /\ sess = [s \in Slots |-> Idle]
    /\ open = {}
    /\ writer = <<>>

ListUnchanged == UNCHANGED <<req, resp>>

\* Ids whose delete has been acknowledged.
Acked ==
    { sess[t].req.plot_id : t \in { u \in Slots : /\ sess[u].pc \in {"exit", "done"}
                                                  /\ sess[u].req.op = "delete_plot"
                                                  /\ sess[u].resp.status = 200 } }

\* create_plot requests that have not yet drawn their id.
PendingCreates ==
    { t \in Slots : sess[t].pc = "call" /\ sess[t].req.op = "create_plot" }

\* get_db, up to the yield: db = SessionLocal()
get_db_enter(handles, s) == handles \cup {s}

\* A get_db that closes the session only when the handler returns normally.
get_db_exit_no_finally(handles, s, response) ==
    IF response.status = 200 THEN handles \ {s} ELSE handles

\* get_db, after the yield: finally: db.close()
get_db_exit(handles, s, response) == handles \ {s}

\* A request arrives; its dependency get_db yields a session.
Begin(s) ==
    /\ sess[s].pc = "idle"
    /\ \E r \in Requests :
        /\ r.op = "create_plot" => seq + Cardinality(PendingCreates) < MaxId
        /\ sess' = [sess EXCEPT ![s] =
                      [pc |-> "call", req |-> r, plot |-> NoPlot, resp |-> NoResp,
                       removed |-> {}, wrote |-> NoPlot,
                       after |-> Acked]]
    /\ open' = get_db_enter(open, s)
    /\ UNCHANGED <<rows, seq, assigned, writer>>
    /\ ListUnchanged

Finish(s, response) ==
    sess' = [sess EXCEPT ![s].pc = "exit", ![s].resp = response]

\* The body of a create or update request fails PlotCreate validation.
RejectBody(s) ==
    /\ sess[s].pc = "call"
    /\ sess[s].req.op \in {"create_plot", "update_plot"}
    /\ PlotCreate(sess[s].req.body) = ValidationError
    /\ Finish(s, Unprocessable)
    /\ UNCHANGED <<rows, seq, assigned, open, writer>>
    /\ ListUnchanged

\* list_plots: its one SELECT.
ListStep(s) ==
    /\ sess[s].pc = "call"
    /\ sess[s].req.op = "list_plots"
    /\ Finish(s, list_plots(rows, sess[s].req.work, sess[s].req.status, sess[s].req.q))
    /\ UNCHANGED <<rows, seq, assigned, open, writer>>
    /\ ListUnchanged

\* get_plot: its one SELECT.
GetStep(s) ==
    /\ sess[s].pc = "call"
    /\ sess[s].req.op = "get_plot"
    /\ Finish(s, get_plot(rows, sess[s].req.plot_id))
    /\ UNCHANGED <<rows, seq, assigned, open, writer>>
    /\ ListUnchanged

\* create_plot: db.add(plot) and the flush of db.commit(): INSERT ...
\* RETURNING id draws the sequence value; the row is not yet visible.
CreateFlush(s) ==
    /\ sess[s].pc = "call"
    /\ sess[s].req.op = "create_plot"
    /\ PlotCreate(sess[s].req.body) # ValidationError
    /\ LET id == next_id(rows, seq)
       IN  /\ seq' = id
           /\ assigned' = Append(assigned, id)
           /\ sess' = [sess EXCEPT ![s].pc = "commit", ![s].plot = [id |-> id]]
    /\ UNCHANGED <<rows, open, writer>>
    /\ ListUnchanged

\* create_plot: the COMMIT of db.commit().
CreateCommit(s) ==
    /\ sess[s].pc = "commit"
    /\ sess[s].req.op = "create_plot"
    /\ rows' = commit_insert(rows, sess[s].plot.id, PlotCreate(sess[s].req.body))
    /\ sess' = [sess EXCEPT ![s].pc = "refresh"]
    /\ UNCHANGED <<seq, assigned, open, writer>>
    /\ ListUnchanged

\* update_plot and delete_plot: the SELECT by id and the "if not plot" test.
Lookup(s) ==
    /\ sess[s].pc = "call"
    /\ sess[s].req.op \in {"update_plot", "delete_plot"}
    /\ sess[s].req.op = "update_plot" => PlotCreate(sess[s].req.body) # ValidationError
    /\ LET plot == query_first(rows, sess[s].req.plot_id)
       IN  IF plot = NoPlot
           THEN Finish(s, NotFound)
           ELSE sess' = [sess EXCEPT ![s].pc = "commit", ![s].plot = plot]
    /\ UNCHANGED <<rows, seq, assigned, open, writer>>
    /\ ListUnchanged

\* update_plot: the four assignments and db.commit() (UPDATE, COMMIT).
UpdateCommit(s) ==
    /\ sess[s].pc = "commit"
    /\ sess[s].req.op = "update_plot"
    /\ LET upd == flush_update(rows, sess[s].plot, PlotCreate(sess[s].req.body))
       IN  IF upd.ok
           THEN /\ rows' = upd.rows
                /\ writer' = (sess[s].plot.id :> s) @@ writer
                /\ sess' = [sess EXCEPT ![s].pc = "refresh",
                                        ![s].wrote = query_first(upd.rows, sess[s].plot.id)]
           ELSE /\ Finish(s, ServerError("StaleDataError"))
                /\ UNCHANGED <<rows, writer>>
    /\ UNCHANGED <<seq, assigned, open>>
    /\ ListUnchanged

\* delete_plot: db.delete(plot); db.commit() (DELETE, COMMIT);
\* return {"message": "deleted", ...}
DeleteCommit(s) ==
    /\ sess[s].pc = "commit"
    /\ sess[s].req.op = "delete_plot"
    /\ LET del == flush_delete(rows, sess[s].plot)
       IN  /\ rows' = del.rows
           /\ sess' = [sess EXCEPT ![s].pc = "exit",
                                   ![s].resp = OkDeleted(sess[s].req.plot_id),
                                   ![s].removed = DOMAIN rows \ DOMAIN del.rows]
    /\ UNCHANGED <<seq, assigned, open, writer>>
    /\ ListUnchanged

\* create_plot and update_plot: db.refresh(plot) and the return statement.
Refresh(s) ==
    /\ sess[s].pc = "refresh"
    /\ LET fresh == refresh(rows, sess[s].plot)
       IN  IF fresh = NoPlot
           THEN Finish(s, ServerError("InvalidRequestError"))
           ELSE IF sess[s].req.op = "create_plot"
           THEN Finish(s, return_name("plotF", [data |-> sess[s].req.body, plot |-> fresh]))
           ELSE Finish(s, return_name("plot", [data |-> sess[s].req.body, plot |-> fresh]))
    /\ UNCHANGED <<rows, seq, assigned, open, writer>>
    /\ ListUnchanged

\* The handler has returned or raised: get_db resumes after its yield.
Close(s) ==
    /\ sess[s].pc = "exit"
    /\ open' = get_db_exit(open, s, sess[s].resp)
    /\ sess' = [sess EXCEPT ![s].pc = "done"]
    /\ UNCHANGED <<rows, seq, assigned, writer>>
    /\ ListUnchanged

Next ==
    \E s \in Slots :
        \/ Begin(s)
        \/ RejectBody(s)
        \/ ListStep(s)
        \/ GetStep(s)
        \/ CreateFlush(s)
        \/ CreateCommit(s)
        \/ Lookup(s)
        \/ UpdateCommit(s)
        \/ DeleteCommit(s)
        \/ Refresh(s)
        \/ Close(s)

Spec == Init /\ [][Next]_vars

----------------------------------------------------------------------------
(* SpecList: list_plots on drawn tables and query parameters *)

\* The rows create_plot and update_plot can store.
RowValues == { PlotCreate(b) : b \in ValidBodies }

\* Tables with ids in 1..MaxRows; ids may be missing (deleted rows).
Tables == UNION { [D -> RowValues] : D \in SUBSET (1..MaxRows) }

InitList ==
    /\ rows \in Tables
    /\ seq = MaxRows
    /\ assigned = [i \in 1..MaxRows |-> i]
    /\ req \in [op : {"list_plots"}, work : WorkParams, status : StatusParams, q : QParams]
    /\ resp = NoResp
    /\ sess = [s \in Slots |-> Idle]
    /\ open = {}
    /\ writer = <<>>

ListPlots ==
    /\ resp = NoResp
    /\ resp' = list_plots(rows, req.work, req.status, req.q)
    /\ UNCHANGED <<rows, seq, assigned, req, sess, open, writer>>

NextList == ListPlots

SpecList == InitList /\ [][NextList]_vars

----------------------------------------------------------------------------
(* Properties of Spec (requests in parallel) *)

Responded(s) == sess[s].pc \in {"exit", "done"}

\* Slot s holds a request with a body that passed validation.
ValidBody(s) == PlotCreate(sess[s].req.body) # ValidationError

\* Slot s takes the step in which its handler sends its first SELECT.
FirstSelect(s) == sess[s].pc = "call" /\ sess'[s].pc # "call"

\* The record a request body describes, stored under id.
Submitted(id, body) == PlotModel(id, PlotCreate(body))

\* C1: a valid create request is answered with the inserted row, id
\* included, and get_plot on that id then yields the same record, whose four
\* fields are the submitted ones.
C1_CreateRoundTrip ==
    \A s \in Slots :
        (Responded(s) /\ sess[s].req.op = "create_plot" /\ ValidBody(s)) =>
            /\ sess[s].resp.status = 200
            /\ sess[s].resp.kind = "plot"
            /\ sess[s].resp.plot = Submitted(sess[s].plot.id, sess[s].req.body)
            /\ get_plot(rows, sess[s].plot.id) = sess[s].resp

\* C2: a get_plot, update_plot or delete_plot whose lookup finds no row
\* under its id answers 404 "Plot not found", whatever the other requests
\* are doing, and changes nothing in the table.
C2_UnknownIdNotFound ==
    [][ \A s \in Slots :
          ( /\ FirstSelect(s)
            /\ \/ sess[s].req.op \in {"get_plot", "delete_plot"}
               \/ sess[s].req.op = "update_plot" /\ ValidBody(s)
            /\ sess[s].req.plot_id \notin DOMAIN rows )
          => ( /\ sess'[s].pc = "exit"
               /\ sess'[s].resp = [status |-> 404, kind |-> "error", detail |-> "Plot not found"]
               /\ rows' = rows ) ]_vars

C2_Witness ==
    \E s, t \in Slots :
        /\ sess[s].pc = "done"
        /\ sess[s].req.op = "update_plot"
        /\ sess[s].resp.status = 404
        /\ sess[t].pc = "done"
        /\ sess[t].req.op = "delete_plot"
        /\ sess[t].resp.status = 404
        /\ DOMAIN rows # {}

Committed(s) ==
    /\ sess[s].pc \in {"refresh", "exit", "done"}
    /\ sess[s].resp.kind # "error"

\* C3: once an update_plot on an existing id has committed, the row it
\* left holds exactly the request's four values under the same id.
C3_UpdateReplacesAll ==
    \A s \in Slots :
        (sess[s].pc # "idle" /\ sess[s].req.op = "update_plot" /\ Committed(s)
            /\ sess[s].wrote # NoPlot)
        => sess[s].wrote = Submitted(sess[s].req.plot_id, sess[s].req.body)

\* C6: the ids create_plot is given strictly increase in assignment order,
\* so none is given twice, deleted or not, overlapping creates included.
C6_IdsIncrease ==
    \A i, j \in 1..Len(assigned) : i < j => assigned[i] < assigned[j]

\* A create_plot that started after the delete of id 1 was acknowledged
\* has been given id 2 and has committed its row.
C6_Witness ==
    \E s \in Slots :
        /\ Responded(s)
        /\ sess[s].req.op = "create_plot"
        /\ ValidBody(s)
        /\ sess[s].after = {1}
        /\ sess[s].plot.id = 2
        /\ assigned = <<1, 2>>
        /\ DOMAIN rows = {2}

AckedDelete(s) ==
    /\ Responded(s)
    /\ sess[s].req.op = "delete_plot"
    /\ sess[s].resp = [status |-> 200, kind |-> "deleted", message |-> "deleted",
                       id |-> sess[s].req.plot_id]

\* C7 as claimed: every acknowledged delete_plot has itself removed the row
\* with its id.
C7_AckedRemovedOne ==
    \A s \in Slots : AckedDelete(s) => sess[s].removed = {sess[s].req.plot_id}

\* C7 as amended: an acknowledged delete_plot has removed no row but the
\* one with its id; it removed none only when another delete_plot of that
\* id removed it; the id is absent from then on, and a get_plot that
\* starts after the acknowledgement answers 404.
C7_AckedAbsent ==
    /\ \A s \in Slots :
          AckedDelete(s) =>
              /\ sess[s].removed \subseteq {sess[s].req.plot_id}
              /\ sess[s].req.plot_id \notin DOMAIN rows
              /\ sess[s].removed = {} =>
                     \E t \in Slots \ {s} :
                         /\ AckedDelete(t)
                         /\ sess[t].removed = {sess[s].req.plot_id}
    /\ \A s \in Slots :
          ( /\ Responded(s)
            /\ sess[s].req.op = "get_plot"
            /\ sess[s].req.plot_id \in sess[s].after ) => sess[s].resp = NotFound

C7_Witness ==
    \E s, t \in Slots :
        /\ AckedDelete(s)
        /\ sess[s].removed = {1}
        /\ sess[t].pc = "done"
        /\ sess[t].req.op = "get_plot"
        /\ 1 \in sess[t].after
        /\ sess[t].resp.status = 404

OkUpdate(s) ==
    /\ Responded(s)
    /\ sess[s].req.op = "update_plot"
    /\ sess[s].resp.status = 200

\* C8: when two update_plot requests on one id have both succeeded, the
\* row equals the body of the one that committed last.
C8_LastWriterWins ==
    \A a, b \in Slots :
        ( /\ a # b
          /\ OkUpdate(a)
          /\ OkUpdate(b)
          /\ sess[a].req.plot_id = sess[b].req.plot_id
          /\ sess[b].req.plot_id \in DOMAIN rows
          /\ sess[b].req.plot_id \in DOMAIN writer
          /\ writer[sess[b].req.plot_id] = b )
        => rows[sess[b].req.plot_id] = PlotCreate(sess[b].req.body)

\* C9: a request holds a session exactly from its start until its handler
\* has returned or raised; a completed request holds none.
C9_HandleReleased ==
    /\ \A s \in Slots : s \in open <=> sess[s].pc \in {"call", "commit", "refresh", "exit"}
    /\ (\A s \in Slots : sess[s].pc = "done") => open = {}

C9_Witness ==
    /\ open = {}
    /\ \A s \in Slots : sess[s].pc = "done"
    /\ \E s \in Slots : sess[s].resp.status = 404
    /\ \E s \in Slots : sess[s].resp.status = 500

\* Slot s holds a create_plot request past validation.
Creating(s) == sess[s].pc # "idle" /\ sess[s].req.op = "create_plot"

\* C10: the COMMIT of a create_plot adds exactly one row, holding the
\* request's values, and changes no other row; no other step of the request
\* touches the table; and the response, whatever it is, comes only after
\* that COMMIT.
C10_CreateCommits ==
    [][ \A s \in Slots :
          (sess'[s] # sess[s] /\ Creating(s)) =>
              /\ sess[s].pc = "commit" =>
                    /\ sess[s].plot.id \notin DOMAIN rows
                    /\ DOMAIN rows' = DOMAIN rows \cup {sess[s].plot.id}
                    /\ rows'[sess[s].plot.id] = PlotCreate(sess[s].req.body)
                    /\ \A i \in DOMAIN rows : rows'[i] = rows[i]
              /\ sess[s].pc # "commit" => rows' = rows
              /\ (sess'[s].pc = "exit" /\ ValidBody(s)) => sess[s].pc = "refresh" ]_vars

C10_Witness ==
    \E s \in Slots :
        /\ sess[s].pc = "done"
        /\ sess[s].req.op = "create_plot"
        /\ sess[s].resp = [status |-> 500, kind |-> "error", detail |-> "NameError"]
        /\ sess[s].plot.id \in DOMAIN rows
        /\ rows[sess[s].plot.id] = PlotCreate(sess[s].req.body)

----------------------------------------------------------------------------
(* Properties of SpecList *)

\* What a list response must be, given which rows are wanted: those rows,
\* each once, as stored, ascending by id.
IsListOf(response, wanted) ==
    /\ response.status = 200
    /\ response.kind = "list"
    /\ Len(response.plots) = Cardinality(wanted)
    /\ { response.plots[k].id : k \in 1..Len(response.plots) } = wanted
    /\ \A k \in 1..Len(response.plots) :
           /\ response.plots[k] = PlotModel(response.plots[k].id, rows[response.plots[k].id])
           /\ k > 1 => response.plots[k - 1].id < response.plots[k].id

\* C4 as claimed: every supplied work or status value, the empty string
\* included, selects the rows equal to it.
C4_EverySuppliedValue ==
    resp # NoResp =>
        IsListOf(resp, { i \in DOMAIN rows :
                           /\ req.work # None => rows[i].work = req.work
                           /\ req.status # None => rows[i].status = req.status
                           /\ req.q # None => q_matches(rows[i], req.q) })

\* C4 as amended: list_plots returns the rows that satisfy every supplied
\* non-empty filter, each once, ascending by id; a work or status supplied
\* as the empty string is ignored.
C4_NonEmptyFilters ==
    resp # NoResp =>
        IsListOf(resp, { i \in DOMAIN rows :
                           /\ req.work \notin {None, <<>>} => rows[i].work = req.work
                           /\ req.status \notin {None, <<>>} => rows[i].status = req.status
                           /\ req.q # None => q_matches(rows[i], req.q) })

\* The three plots (A, open), (B, open), (A, closed) with a hole in the
\* ids, listed with work = A, status = open.
C4_Witness ==
    /\ resp # NoResp
    /\ req.work = <<"A">>
    /\ req.status = <<"o", "p">>
    /\ req.q = <<"d", "R">>
    /\ DOMAIN rows = {1, 3}
    /\ rows[1].work = <<"B">>
    /\ rows[3].status = <<"o", "p">>
    /\ Len(resp.plots) = 1

\* q occurs in s as a literal substring, letter case ignored.
ContainsCI(s, q) ==
    \E i \in 0..(Len(s) - Len(q)) :
        \A k \in 1..Len(q) : Lower(s[i + k]) = Lower(q[k])

\* C5: with q supplied, a row is returned exactly when q occurs literally,
\* letter case ignored, in its title or in its non-null summary.
C5_LiteralSubstring ==
    (resp # NoResp /\ req.work = None /\ req.status = None /\ req.q # None) =>
        \A i \in DOMAIN rows :
            (\E k \in 1..Len(resp.plots) : resp.plots[k].id = i)
            <=> \/ ContainsCI(rows[i].title, req.q)
                \/ rows[i].summary # None /\ ContainsCI(rows[i].summary, req.q)

====
